---- MODULE Spec2Model ----
(***************************************************************************)
(* Model of the blogicum request handlers (blog/views.py): the store of    *)
(* posts, comments, categories and users, and one action per class-based   *)
(* view.  Every request is one atomic step (request, store) ->             *)
(* (store', response).  The write views are modelled on their POST path    *)
(* with a form that validates; the read views on GET.                      *)
(*                                                                         *)
(* now() is read once per request: each action picks the time t of the     *)
(* request (not before the time of the previous one) and filters with it.  *)
(***************************************************************************)
EXTENDS Integers, Sequences, FiniteSets

VARIABLES users, categories, posts, comments, nextPost, nextComment, now, response

vars == <<users, categories, posts, comments, nextPost, nextComment, now, response>>

store == <<users, categories, posts, comments>>

(* ------------------------------ bounds --------------------------------- *)

MaxPosts == 1        \* posts ever created in a run of Spec
MaxComments == 1     \* comments ever created in a run of Spec
MaxTime == 1         \* the clock runs 0..MaxTime
MaxRows == 25        \* posts in a store of SpecPage

(* ------------------------- values of the store ------------------------- *)

Anonymous == "anon"                 \* request.user of a logged-out request
Users == {"u1", "u2"}               \* User rows, named by username
Viewers == Users \cup {Anonymous}
Usernames == Users \cup {"ghost"}   \* usernames a profile path may carry
Names == {"n0", "n1"}               \* values of a profile field
Slugs == {"c1", "c2"}               \* Category rows, named by slug
SlugArgs == Slugs \cup {"nocat"}    \* slugs a category path may carry
Texts == {"a", "b"}                 \* comment texts
Times == 0..MaxTime

PostFields == [is_published : BOOLEAN, pub_date : Times, category : Slugs]

is_authenticated(user) == user # Anonymous

(* ------------------------------ responses ------------------------------ *)

NoTarget == [name |-> "", pk |-> 0, username |-> ""]
LoginUrl == [name |-> "login", pk |-> 0, username |-> ""]
IndexUrl == [name |-> "blog:index", pk |-> 0, username |-> ""]
PostDetailUrl(pk) == [name |-> "blog:post_detail", pk |-> pk, username |-> ""]
ProfileUrl(username) == [name |-> "blog:profile", pk |-> 0, username |-> username]

\* The request served last and the answer to it.  kind is "page" (a rendered
\* template), "redirect" (to target), "notfound" (Http404) or "fault" (an
\* exception no handler catches); items are the posts of the page.
Response(handler, viewer, pk, cpk, arg, page, kind, target, items) ==
    [handler |-> handler, viewer |-> viewer, pk |-> pk, cpk |-> cpk, arg |-> arg,
     page |-> page, kind |-> kind, target |-> target, items |-> items]

NoResponse == Response("", Anonymous, 0, 0, "", 0, "", NoTarget, <<>>)

Page(handler, viewer, pk, arg, page, items) ==
    Response(handler, viewer, pk, 0, arg, page, "page", NoTarget, items)
Redirect(handler, viewer, pk, cpk, target) ==
    Response(handler, viewer, pk, cpk, "", 0, "redirect", target, <<>>)
Http404(handler, viewer, pk, cpk, arg, page) ==
    Response(handler, viewer, pk, cpk, arg, page, "notfound", NoTarget, <<>>)
Fault(handler, viewer, pk, cpk) ==
    Response(handler, viewer, pk, cpk, "", 0, "fault", NoTarget, <<>>)

(* ------------------------------ querysets ------------------------------ *)

Range(s) == {s[i] : i \in DOMAIN s}

\* The mixin's filter without category__is_published.
GetPostsMixin_get_queryset_no_category(qs, t) ==
    {p \in qs : posts[p].is_published /\ posts[p].pub_date <= t}

\* GetPostsMixin.get_queryset: filter(is_published=True, pub_date__lte=now(),
\* category__is_published=True) over the queryset qs (a set of post ids).
GetPostsMixin_get_queryset(qs, t) ==
    {p \in qs : /\ posts[p].is_published
                /\ posts[p].pub_date <= t
                /\ categories[posts[p].category]}

\* ordering = '-pub_date': the rows of qs by pub_date descending; rows of equal
\* pub_date in the order of their primary key.
Before(p, q) ==
    \/ posts[p].pub_date > posts[q].pub_date
    \/ posts[p].pub_date = posts[q].pub_date /\ p < q

RECURSIVE OrderByPubDateDesc(_)
OrderByPubDateDesc(qs) ==
    IF qs = {} THEN <<>>
    ELSE LET first == CHOOSE p \in qs : \A q \in qs \ {p} : Before(p, q)
         IN <<first>> \o OrderByPubDateDesc(qs \ {first})

paginate_by == 10

\* Paginator.num_pages: ceil(count / per_page), 1 for an empty list
\* (allow_empty_first_page).
NumPages(rows) ==
    IF Len(rows) = 0 THEN 1 ELSE (Len(rows) + paginate_by - 1) \div paginate_by

\* A page that starts one row late.
PageRows_late(rows, k) ==
    LET bottom == (k - 1) * paginate_by + 1
        top == IF bottom + paginate_by < Len(rows) THEN bottom + paginate_by
               ELSE Len(rows)
    IN SubSeq(rows, bottom + 1, top)

\* Paginator.page(k).object_list: rows[(k-1)*per_page : k*per_page].
PageRows(rows, k) ==
    LET bottom == (k - 1) * paginate_by
        top == IF bottom + paginate_by < Len(rows) THEN bottom + paginate_by
               ELSE Len(rows)
    IN SubSeq(rows, bottom + 1, top)

\* MultipleObjectMixin.paginate_queryset: Http404 for a page out of range.
PaginatedList(handler, viewer, arg, rows, k) ==
    IF k >= 1 /\ k <= NumPages(rows)
    THEN Page(handler, viewer, 0, arg, k, PageRows(rows, k))
    ELSE Http404(handler, viewer, 0, 0, arg, k)

(* ------------------------------- state --------------------------------- *)

\* Tables are functions from primary key to row.
NoRows == [k \in {} |-> 0]
Insert(table, pk, row) ==
    [k \in DOMAIN table \cup {pk} |-> IF k = pk THEN row ELSE table[k]]
Delete(table, pks) == [k \in DOMAIN table \ pks |-> table[k]]

TypeOK ==
    /\ users \in [Users -> Names]
    /\ categories \in [Slugs -> BOOLEAN]
    /\ DOMAIN posts \subseteq 1..(nextPost - 1)
    /\ \A p \in DOMAIN posts : posts[p].author \in Users
    /\ DOMAIN comments \subseteq 1..(nextComment - 1)
    /\ now \in Times

Init ==
    /\ users = [u \in Users |-> "n0"]
    /\ categories \in [Slugs -> BOOLEAN]
    /\ posts = NoRows
    /\ comments = NoRows
    /\ nextPost = 1
    /\ nextComment = 1
    /\ now = 0
    /\ response = NoResponse

(* ----------------------------- read views ------------------------------ *)

\* PostListView: the filtered queryset, ordered, paginated.
IndexRows(t) == OrderByPubDateDesc(GetPostsMixin_get_queryset(DOMAIN posts, t))

PostListView(viewer, k, t) ==
    /\ response' = PaginatedList("blog:index", viewer, "", IndexRows(t), k)
    /\ now' = t
    /\ UNCHANGED <<users, categories, posts, comments, nextPost, nextComment>>

\* get_object_or_404(queryset, pk=pk): the row, as a set of at most one key.
get_object_or_404(qs, pk) == IF pk \in qs THEN {pk} ELSE {}

\* get_object without the second, filtered lookup.
PostDetailView_get_object_unfiltered(viewer, pk, t) ==
    get_object_or_404(DOMAIN posts, pk)

\* PostDetailView.get_object.
PostDetailView_get_object(viewer, pk, t) ==
    LET post == get_object_or_404(DOMAIN posts, pk)
        queryset == GetPostsMixin_get_queryset(DOMAIN posts, t)
    IN IF post = {} THEN {}
       ELSE IF viewer # posts[pk].author THEN get_object_or_404(queryset, pk)
       ELSE post

PostDetailView(viewer, pk, t) ==
    /\ response' = IF PostDetailView_get_object(viewer, pk, t) = {}
                   THEN Http404("blog:post_detail", viewer, pk, 0, "", 0)
                   ELSE Page("blog:post_detail", viewer, pk, "", 0, <<pk>>)
    /\ now' = t
    /\ UNCHANGED <<users, categories, posts, comments, nextPost, nextComment>>

\* CategoryPostsListView.get_queryset: the category by slug and
\* is_published=True, then the mixin's queryset filtered by that category.
CategoryFound(slug) == slug \in DOMAIN categories /\ categories[slug]

CategoryPostsListView_get_queryset(slug, t) ==
    {p \in GetPostsMixin_get_queryset(DOMAIN posts, t) : posts[p].category = slug}

CategoryRows(slug, t) == OrderByPubDateDesc(CategoryPostsListView_get_queryset(slug, t))

CategoryPostsListView(viewer, slug, k, t) ==
    /\ response' = IF CategoryFound(slug)
                   THEN PaginatedList("blog:category_posts", viewer, slug,
                                      CategoryRows(slug, t), k)
                   ELSE Http404("blog:category_posts", viewer, 0, 0, slug, k)
    /\ now' = t
    /\ UNCHANGED <<users, categories, posts, comments, nextPost, nextComment>>

\* ProfileListView.get_queryset: the user's posts; for another viewer
\* filter(is_published=True, pub_date__lte=now()).
ProfileFound(username) == username \in DOMAIN users

ProfileListView_get_queryset(viewer, username, t) ==
    LET authored == {p \in DOMAIN posts : posts[p].author = username}
    IN IF viewer # username
       THEN {p \in authored : posts[p].is_published /\ posts[p].pub_date <= t}
       ELSE authored

ProfileRows(viewer, username, t) ==
    OrderByPubDateDesc(ProfileListView_get_queryset(viewer, username, t))

ProfileListView(viewer, username, k, t) ==
    /\ response' = IF ProfileFound(username)
                   THEN PaginatedList("blog:profile", viewer, username,
                                      ProfileRows(viewer, username, t), k)
                   ELSE Http404("blog:profile", viewer, 0, 0, username, k)
    /\ now' = t
    /\ UNCHANGED <<users, categories, posts, comments, nextPost, nextComment>>

(* ----------------------------- write views ----------------------------- *)

\* LoginRequiredMixin.dispatch: an anonymous request is redirected to the login
\* page before the view runs.
LoginRequired(handler, viewer, pk, cpk, t) ==
    /\ ~is_authenticated(viewer)
    /\ response' = Redirect(handler, viewer, pk, cpk, LoginUrl)
    /\ now' = t
    /\ UNCHANGED <<users, categories, posts, comments, nextPost, nextComment>>

\* ProfileEditView: the object edited is request.user.
ProfileEditView(viewer, name, t) ==
    \/ LoginRequired("blog:edit_profile", viewer, 0, 0, t)
    \/ /\ is_authenticated(viewer)
       /\ users' = [users EXCEPT ![viewer] = name]
       /\ response' = Redirect("blog:edit_profile", viewer, 0, 0, ProfileUrl(viewer))
       /\ now' = t
       /\ UNCHANGED <<categories, posts, comments, nextPost, nextComment>>

PostRow(author, fields) ==
    [author |-> author, is_published |-> fields.is_published,
     pub_date |-> fields.pub_date, category |-> fields.category]

\* PostCreateView.form_valid: form.instance.author = request.user, then save.
PostCreateView(viewer, fields, t) ==
    \/ LoginRequired("blog:create_post", viewer, 0, 0, t)
    \/ /\ is_authenticated(viewer)
       /\ nextPost <= MaxPosts
       /\ posts' = Insert(posts, nextPost, PostRow(viewer, fields))
       /\ nextPost' = nextPost + 1
       /\ response' = Redirect("blog:create_post", viewer, 0, 0, ProfileUrl(viewer))
       /\ now' = t
       /\ UNCHANGED <<users, categories, comments, nextComment>>

\* PostUpdateView.get_queryset: Post.objects.filter(author=request.user).
PostUpdateView_get_queryset(viewer) ==
    {p \in DOMAIN posts : posts[p].author = viewer}

\* dispatch left to LoginRequiredMixin.
PostUpdateView_dispatch_login(pk) == LoginUrl

\* PostUpdateView.dispatch: where an anonymous request is sent, before
\* LoginRequiredMixin sees it.
PostUpdateView_dispatch(pk) == PostDetailUrl(pk)

\* PostUpdateView: dispatch answers an anonymous request itself; the object
\* is looked up in the author's own posts.
PostUpdateView(viewer, pk, fields, t) ==
    \/ /\ ~is_authenticated(viewer)
       /\ response' = Redirect("blog:edit_post", viewer, pk, 0, PostUpdateView_dispatch(pk))
       /\ now' = t
       /\ UNCHANGED <<users, categories, posts, comments, nextPost, nextComment>>
    \/ /\ is_authenticated(viewer)
       /\ get_object_or_404(PostUpdateView_get_queryset(viewer), pk) = {}
       /\ response' = Http404("blog:edit_post", viewer, pk, 0, "", 0)
       /\ now' = t
       /\ UNCHANGED <<users, categories, posts, comments, nextPost, nextComment>>
    \/ /\ is_authenticated(viewer)
       /\ get_object_or_404(PostUpdateView_get_queryset(viewer), pk) # {}
       /\ posts' = [posts EXCEPT ![pk] = PostRow(posts[pk].author, fields)]
       /\ response' = Redirect("blog:edit_post", viewer, pk, 0, PostDetailUrl(pk))
       /\ now' = t
       /\ UNCHANGED <<users, categories, comments, nextPost, nextComment>>

\* What a get_object hands to its view: the row, a value that is not a row
\* (a lazy url or a redirect response), or Http404.
Row(pk) == [tag |-> "row", pk |-> pk, target |-> NoTarget]
NotARow(target) == [tag |-> "redirect", pk |-> 0, target |-> target]
Raise404 == [tag |-> "Http404", pk |-> 0, target |-> NoTarget]

\* PostDeleteView.get_object: the post from the unfiltered queryset; for a
\* viewer who is not its author, reverse_lazy('blog:post_detail') instead.
PostDeleteView_get_object(viewer, pk) ==
    IF get_object_or_404(DOMAIN posts, pk) = {} THEN Raise404
    ELSE IF viewer # posts[pk].author THEN NotARow(PostDetailUrl(pk))
    ELSE Row(pk)

\* Comment.post is a foreign key to Post: the comments of a deleted post go
\* with it.
CascadeComments(pk) == {c \in DOMAIN comments : comments[c].post = pk}

\* PostDeleteView (DeletionMixin.delete, or form_valid in later Django
\* versions): self.object = self.get_object(), then self.object.delete() and a
\* redirect to success_url.  A value that is not a row has no delete(): the
\* AttributeError is not caught.
PostDeleteView(viewer, pk, t) ==
    \/ LoginRequired("blog:delete_post", viewer, pk, 0, t)
    \/ /\ is_authenticated(viewer)
       /\ LET object == PostDeleteView_get_object(viewer, pk)
          IN \/ /\ object.tag = "Http404"
                /\ response' = Http404("blog:delete_post", viewer, pk, 0, "", 0)
                /\ UNCHANGED <<posts, comments>>
             \/ /\ object.tag = "redirect"
                /\ response' = Fault("blog:delete_post", viewer, pk, 0)
                /\ UNCHANGED <<posts, comments>>
             \/ /\ object.tag = "row"
                /\ posts' = Delete(posts, {object.pk})
                /\ comments' = Delete(comments, CascadeComments(object.pk))
                /\ response' = Redirect("blog:delete_post", viewer, pk, 0, IndexUrl)
       /\ now' = t
       /\ UNCHANGED <<users, categories, nextPost, nextComment>>

\* get_object without is_published=True.
CommentCreateView_get_object_any(pk) == get_object_or_404(DOMAIN posts, pk)

\* CommentCreateView.get_object: get_object_or_404(Post, pk=pk, is_published=True).
CommentCreateView_get_object(pk) ==
    get_object_or_404({p \in DOMAIN posts : posts[p].is_published}, pk)

\* CommentCreateView.form_valid: the post of the path and request.user are
\* set on the new comment, which is saved.
CommentCreateView(viewer, pk, text, t) ==
    \/ LoginRequired("blog:add_comment", viewer, pk, 0, t)
    \/ /\ is_authenticated(viewer)
       /\ CommentCreateView_get_object(pk) = {}
       /\ response' = Http404("blog:add_comment", viewer, pk, 0, "", 0)
       /\ now' = t
       /\ UNCHANGED <<users, categories, posts, comments, nextPost, nextComment>>
    \/ /\ is_authenticated(viewer)
       /\ CommentCreateView_get_object(pk) # {}
       /\ nextComment <= MaxComments
       /\ comments' = Insert(comments, nextComment,
                             [author |-> viewer, post |-> pk, text |-> text])
       /\ nextComment' = nextComment + 1
       /\ response' = Redirect("blog:add_comment", viewer, pk, 0, PostDetailUrl(pk))
       /\ now' = t
       /\ UNCHANGED <<users, categories, posts, nextPost>>

\* get_object without the comparison of request.user and comment.author.
CommentChangeMixin_get_object_unchecked(viewer, pk, cpk) ==
    IF get_object_or_404(DOMAIN comments, cpk) = {} THEN Raise404 ELSE Row(cpk)

\* CommentChangeMixin.get_object: the comment by comment_pk alone; for a viewer
\* who is not its author, redirect('blog:post_detail', pk) instead.
CommentChangeMixin_get_object(viewer, pk, cpk) ==
    IF get_object_or_404(DOMAIN comments, cpk) = {} THEN Raise404
    ELSE IF viewer # comments[cpk].author THEN NotARow(PostDetailUrl(pk))
    ELSE Row(cpk)

\* CommentUpdateView (UpdateView.post): self.object = self.get_object() becomes
\* the form's instance; form_valid saves and redirects.  A redirect response
\* is no model instance: building the form raises.
CommentUpdateView(viewer, pk, cpk, text, t) ==
    \/ LoginRequired("blog:edit_comment", viewer, pk, cpk, t)
    \/ /\ is_authenticated(viewer)
       /\ LET object == CommentChangeMixin_get_object(viewer, pk, cpk)
          IN \/ /\ object.tag = "Http404"
                /\ response' = Http404("blog:edit_comment", viewer, pk, cpk, "", 0)
                /\ UNCHANGED comments
             \/ /\ object.tag = "redirect"
                /\ response' = Fault("blog:edit_comment", viewer, pk, cpk)
                /\ UNCHANGED comments
             \/ /\ object.tag = "row"
                /\ comments' = [comments EXCEPT ![object.pk].text = text]
                /\ response' = Redirect("blog:edit_comment", viewer, pk, cpk,
                                        PostDetailUrl(pk))
       /\ now' = t
       /\ UNCHANGED <<users, categories, posts, nextPost, nextComment>>

\* CommentDeleteView (DeletionMixin.delete): self.object.delete(), then a
\* redirect to get_success_url().  A redirect response has no delete().
CommentDeleteView(viewer, pk, cpk, t) ==
    \/ LoginRequired("blog:delete_comment", viewer, pk, cpk, t)
    \/ /\ is_authenticated(viewer)
       /\ LET object == CommentChangeMixin_get_object(viewer, pk, cpk)
          IN \/ /\ object.tag = "Http404"
                /\ response' = Http404("blog:delete_comment", viewer, pk, cpk, "", 0)
                /\ UNCHANGED comments
             \/ /\ object.tag = "redirect"
                /\ response' = Fault("blog:delete_comment", viewer, pk, cpk)
                /\ UNCHANGED comments
             \/ /\ object.tag = "row"
                /\ comments' = Delete(comments, {object.pk})
                /\ response' = Redirect("blog:delete_comment", viewer, pk, cpk,
                                        PostDetailUrl(pk))
       /\ now' = t
       /\ UNCHANGED <<users, categories, posts, nextPost, nextComment>>

(* --------------------------- specification ----------------------------- *)

PostPks == 1..MaxPosts
CommentPks == 1..MaxComments
LaterTimes == now..MaxTime

\* GET requests, and the creation of posts that fills the store they read.
NextRead ==
    \/ \E viewer \in Viewers, t \in LaterTimes : PostListView(viewer, 1, t)
    \/ \E viewer \in Viewers, t \in LaterTimes, pk \in PostPks :
          PostDetailView(viewer, pk, t)
    \/ \E viewer \in Viewers, t \in LaterTimes, slug \in SlugArgs :
          CategoryPostsListView(viewer, slug, 1, t)
    \/ \E viewer \in Viewers, t \in LaterTimes, username \in Usernames :
          ProfileListView(viewer, username, 1, t)
    \/ \E viewer \in Viewers, t \in LaterTimes, fields \in PostFields :
          PostCreateView(viewer, fields, t)

\* POST requests to the routes that require a login.
NextWrite ==
    \/ \E viewer \in Viewers, t \in LaterTimes, name \in Names :
          ProfileEditView(viewer, name, t)
    \/ \E viewer \in Viewers, t \in LaterTimes, fields \in PostFields :
          PostCreateView(viewer, fields, t)
    \/ \E viewer \in Viewers, t \in LaterTimes, pk \in PostPks, fields \in PostFields :
          PostUpdateView(viewer, pk, fields, t)
    \/ \E viewer \in Viewers, t \in LaterTimes, pk \in PostPks :
          PostDeleteView(viewer, pk, t)
    \/ \E viewer \in Viewers, t \in LaterTimes, pk \in PostPks, text \in Texts :
          CommentCreateView(viewer, pk, text, t)
    \/ \E viewer \in Viewers, t \in LaterTimes, pk \in PostPks, cpk \in CommentPks,
          text \in Texts :
          CommentUpdateView(viewer, pk, cpk, text, t)
    \/ \E viewer \in Viewers, t \in LaterTimes, pk \in PostPks, cpk \in CommentPks :
          CommentDeleteView(viewer, pk, cpk, t)

Next == NextRead \/ NextWrite

\* The whole application.
Spec == Init /\ [][Next]_vars

\* The read views over every store of posts, and the write views over every
\* store of posts and comments.
SpecRead == Init /\ [][NextRead]_vars
SpecWrite == Init /\ [][NextWrite]_vars

(* ----------------------------- pagination ------------------------------ *)

\* Stores of up to MaxRows posts for the index listing: post i is dated
\* date(i) (up to 4 instants back from MaxTime, so that some are still to come
\* at an early now), every hide-th post is unpublished, and the posts alternate
\* between the two categories.
PageArgs == 0..(MaxRows \div paginate_by + 2)
Strides == {1, 3}
Hides == {3, MaxRows + 1}

PageRowOf(i, stride, hide) ==
    [author |-> IF i % 2 = 0 THEN "u1" ELSE "u2",
     is_published |-> (i % hide # 0),
     pub_date |-> MaxTime - ((i * stride) % 5),
     category |-> IF i % 2 = 0 THEN "c1" ELSE "c2"]

InitPage ==
    /\ users = [u \in Users |-> "n0"]
    /\ categories \in [Slugs -> BOOLEAN]
    /\ \E n \in 0..MaxRows, stride \in Strides, hide \in Hides :
          /\ posts = [i \in 1..n |-> PageRowOf(i, stride, hide)]
          /\ nextPost = n + 1
    /\ comments = NoRows
    /\ nextComment = 1
    /\ now \in Times
    /\ response = NoResponse

NextPage ==
    \E viewer \in Viewers, t \in LaterTimes, k \in PageArgs : PostListView(viewer, k, t)

SpecPage == InitPage /\ [][NextPage]_vars

(* ------------------------------ properties ----------------------------- *)

\* "Publicly visible" as the data model defines it.
PubliclyVisible(p, t) ==
    /\ posts[p].is_published
    /\ posts[p].pub_date <= t
    /\ categories[posts[p].category]

PublicPosts(t) == {p \in DOMAIN posts : PubliclyVisible(p, t)}
AuthoredBy(username) == {p \in DOMAIN posts : posts[p].author = username}

Listings == {"blog:index", "blog:category_posts", "blog:profile"}

\* C1: Post Detail for post pk and any viewer at time now: NotFound if pk does
\* not exist; the post if the viewer is its author, whatever its publication
\* fields; for any other viewer the post if and only if it is published, not
\* dated after now and in a published category, and NotFound otherwise.
C1_PostDetailVisibility ==
    /\ \A viewer \in Viewers, pk \in PostPks :
          LET object == PostDetailView_get_object(viewer, pk, now)
          IN IF pk \notin DOMAIN posts THEN object = {}
             ELSE IF viewer = posts[pk].author THEN object = {pk}
             ELSE object = IF PubliclyVisible(pk, now) THEN {pk} ELSE {}
    /\ response.handler = "blog:post_detail" =>
          response.kind =
             IF /\ response.pk \in DOMAIN posts
                /\ \/ response.viewer = posts[response.pk].author
                   \/ PubliclyVisible(response.pk, now)
             THEN "page" ELSE "notfound"

\* The author is served a post of theirs that is not publicly visible.
C1_Witness ==
    /\ response.handler = "blog:post_detail"
    /\ response.kind = "page"
    /\ response.pk \in DOMAIN posts
    /\ response.viewer = posts[response.pk].author
    /\ ~PubliclyVisible(response.pk, now)

\* C2: for every viewer the Index listing holds exactly the publicly visible
\* posts, the Category listing for slug s exactly those of them in category s,
\* and the Category listing is NotFound when s names no category or an
\* unpublished one.
C2_ListingsArePublic ==
    /\ Range(IndexRows(now)) = PublicPosts(now)
    /\ \A slug \in Slugs :
          Range(CategoryRows(slug, now)) =
             {p \in PublicPosts(now) : posts[p].category = slug}
    /\ response.handler = "blog:index" =>
          /\ response.kind = "page"
          /\ Range(response.items) = PublicPosts(now)
    /\ response.handler = "blog:category_posts" =>
          IF response.arg \in Slugs /\ categories[response.arg]
          THEN /\ response.kind = "page"
               /\ Range(response.items) =
                     {p \in PublicPosts(now) : posts[p].category = response.arg}
          ELSE response.kind = "notfound"

\* A category page that lists a post.
C2_Witness ==
    /\ response.handler = "blog:category_posts"
    /\ response.kind = "page"
    /\ response.items # <<>>

\* C3: the Profile listing of an existing user u holds every post of u when
\* the viewer is u, and for any other viewer exactly the posts of u that are
\* publicly visible (published, not dated after now, in a published category).
C3_ProfileListing ==
    response.handler = "blog:profile" /\ response.arg \in Users =>
       /\ response.kind = "page"
       /\ Range(response.items) =
             IF response.viewer = response.arg THEN AuthoredBy(response.arg)
             ELSE AuthoredBy(response.arg) \cap PublicPosts(now)

\* C10: a post that a listing (Index, Category or Profile) shows to a viewer
\* is returned, not NotFound, by Post Detail for the same viewer at the same
\* time.
C10_ListedPostsOpen ==
    response.handler \in Listings /\ response.kind = "page" =>
       \A p \in Range(response.items) :
          PostDetailView_get_object(response.viewer, p, now) # {}

\* The visible posts dated after p, and those dated no earlier than p: a post
\* at position pos of the visible posts by pub_date descending has fewer than
\* pos of the former and at least pos of the latter.
Newer(p, t) == {q \in PublicPosts(t) : posts[q].pub_date > posts[p].pub_date}
NotOlder(p, t) == {q \in PublicPosts(t) : posts[q].pub_date >= posts[p].pub_date}
Min(a, b) == IF a < b THEN a ELSE b
LastPage(n) == IF n = 0 THEN 1 ELSE (n + 9) \div 10

\* C8: page k of the Index listing holds positions 10(k-1)+1 .. min(10k, N) of
\* the N publicly visible posts by pub_date descending: full pages hold 10
\* posts, the last page the rest, and the pages together hold every visible
\* post exactly once.
C8_IndexPagination ==
    LET n == Cardinality(PublicPosts(now))
        rows == IndexRows(now)
    IN /\ \A p \in PublicPosts(now) :
             Cardinality({<<k, i>> \in (1..LastPage(n)) \X (1..10) :
                             /\ i <= Len(PageRows(rows, k))
                             /\ PageRows(rows, k)[i] = p}) = 1
       /\ response.handler = "blog:index" =>
             LET k == response.page
                 items == response.items
             IN IF k >= 1 /\ k <= LastPage(n)
                THEN /\ response.kind = "page"
                     /\ Len(items) = Min(10, n - 10 * (k - 1))
                     /\ \A i \in 1..Len(items) :
                           LET pos == 10 * (k - 1) + i
                           IN /\ items[i] \in PublicPosts(now)
                              /\ Cardinality(Newer(items[i], now)) < pos
                              /\ pos <= Cardinality(NotOlder(items[i], now))
                     /\ \A i, j \in 1..Len(items) : i # j => items[i] # items[j]
                ELSE response.kind = "notfound"

\* 25 visible posts: page 3 holds the last 5.
C8_Witness ==
    /\ Cardinality(PublicPosts(now)) = 25
    /\ response.handler = "blog:index"
    /\ response.page = 3
    /\ response.kind = "page"
    /\ Len(response.items) = 5

PostChanged(p) == p \notin DOMAIN posts' \/ posts'[p] # posts[p]
CommentChanged(c) == c \notin DOMAIN comments' \/ comments'[c] # comments[c]
PostRoutes == {"blog:edit_post", "blog:delete_post"}
CommentRoutes == {"blog:edit_comment", "blog:delete_comment"}
OwnsPost(viewer, pk) == pk \in DOMAIN posts /\ posts[pk].author = viewer
OwnsComment(viewer, cpk) == cpk \in DOMAIN comments /\ comments[cpk].author = viewer

\* A post update/delete or comment update/delete request of a viewer who does
\* not own its target leaves posts and comments as they were.
OthersChangeNothing ==
    /\ response'.handler \in PostRoutes /\ ~OwnsPost(response'.viewer, response'.pk)
          => posts' = posts /\ comments' = comments
    /\ response'.handler \in CommentRoutes
       /\ ~OwnsComment(response'.viewer, response'.cpk)
          => posts' = posts /\ comments' = comments

PostsChangeByAuthor ==
    \A p \in DOMAIN posts :
       PostChanged(p) => /\ response'.handler \in PostRoutes
                         /\ response'.pk = p
                         /\ response'.viewer = posts[p].author

\* C4 as stated: every change or removal of a post is the work of an
\* update/delete request of its author, every change or removal of a comment
\* the work of an update/delete request of that comment's author, and such a
\* request of anyone else changes nothing.
C4_OnlyOwnRequests ==
    [][/\ PostsChangeByAuthor
       /\ \A c \in DOMAIN comments :
             CommentChanged(c) => /\ response'.handler \in CommentRoutes
                                  /\ response'.cpk = c
                                  /\ response'.viewer = comments[c].author
       /\ OthersChangeNothing]_vars

\* C4 amended: as C4, but a comment is also removed when the author of its
\* post deletes that post.
C4_OnlyOwnRequestsOrCascade ==
    [][/\ PostsChangeByAuthor
       /\ \A c \in DOMAIN comments :
             CommentChanged(c) =>
                \/ /\ response'.handler \in CommentRoutes
                   /\ response'.cpk = c
                   /\ response'.viewer = comments[c].author
                \/ /\ response'.handler = "blog:delete_post"
                   /\ response'.pk = comments[c].post
                   /\ response'.viewer = posts[comments[c].post].author
                   /\ c \notin DOMAIN comments'
       /\ OthersChangeNothing]_vars

\* A comment whose author is not the viewer was the target of a comment
\* update or delete request and is still there.
C4_Witness ==
    /\ response.handler \in CommentRoutes
    /\ response.cpk \in DOMAIN comments
    /\ is_authenticated(response.viewer)
    /\ comments[response.cpk].author # response.viewer

\* C5: an authenticated user who requests Post update for an existing post of
\* another author is redirected to that post's detail page, and the post is
\* unchanged.
C5_EditOthersPostRedirects ==
    [][(/\ response'.handler = "blog:edit_post"
        /\ is_authenticated(response'.viewer)
        /\ response'.pk \in DOMAIN posts
        /\ posts[response'.pk].author # response'.viewer)
       => (/\ response'.kind = "redirect"
           /\ response'.target = PostDetailUrl(response'.pk)
           /\ posts' = posts)]_vars

\* C6: an authenticated viewer who requests Comment update, Comment delete or
\* Post delete for an existing comment/post of another author gets a redirect
\* to the detail page of the post id of the path, the store is unchanged, and
\* no fault escapes the handler.
C6_RefusalRedirects ==
    [][(/\ is_authenticated(response'.viewer)
        /\ \/ /\ response'.handler \in CommentRoutes
              /\ response'.cpk \in DOMAIN comments
              /\ comments[response'.cpk].author # response'.viewer
           \/ /\ response'.handler = "blog:delete_post"
              /\ response'.pk \in DOMAIN posts
              /\ posts[response'.pk].author # response'.viewer)
       => (/\ response'.kind = "redirect"
           /\ response'.target = PostDetailUrl(response'.pk)
           /\ store' = store)]_vars

\* C7: a valid comment submission of an authenticated user to post pk: when
\* pk exists and is published (whatever its category and pub_date) exactly one
\* comment is added, with that author and post, nothing else changes and the
\* answer redirects to the post's detail page; otherwise the answer is
\* NotFound and nothing is created.
C7_CommentCreate ==
    [][response'.handler = "blog:add_comment" /\ is_authenticated(response'.viewer) =>
          LET pk == response'.pk
          IN IF pk \in DOMAIN posts /\ posts[pk].is_published
             THEN /\ response'.kind = "redirect"
                  /\ response'.target = PostDetailUrl(pk)
                  /\ \E c \in DOMAIN comments' \ DOMAIN comments :
                        /\ DOMAIN comments' = DOMAIN comments \cup {c}
                        /\ comments'[c].author = response'.viewer
                        /\ comments'[c].post = pk
                  /\ \A c \in DOMAIN comments : comments'[c] = comments[c]
                  /\ posts' = posts /\ users' = users /\ categories' = categories
             ELSE /\ response'.kind = "notfound"
                  /\ store' = store]_vars

\* A comment was added to a published post that is not publicly visible.
C7_Witness ==
    /\ response.handler = "blog:add_comment"
    /\ response.kind = "redirect"
    /\ response.pk \in DOMAIN posts
    /\ ~PubliclyVisible(response.pk, now)
    /\ \E c \in DOMAIN comments :
          comments[c].post = response.pk /\ comments[c].author = response.viewer

LoginRoutes == {"blog:create_post", "blog:edit_post", "blog:delete_post",
                "blog:add_comment", "blog:edit_comment", "blog:delete_comment",
                "blog:edit_profile"}

\* C9: an anonymous request to a route that requires a login changes nothing
\* in the store and is redirected to the login page; Post update alone
\* redirects to the detail page of the requested id.
C9_AnonymousRefused ==
    [][response'.handler \in LoginRoutes /\ response'.viewer = Anonymous =>
          /\ store' = store
          /\ response'.kind = "redirect"
          /\ response'.target = IF response'.handler = "blog:edit_post"
                                THEN PostDetailUrl(response'.pk) ELSE LoginUrl]_vars

\* An anonymous Post update request for an existing post was answered.
C9_Witness ==
    /\ response.handler = "blog:edit_post"
    /\ response.viewer = Anonymous
    /\ response.pk \in DOMAIN posts
    /\ response.kind = "redirect"

====
